---- MODULE Spec2Model ----
\* Life App Telegram bot (telegram-bot/main.py): the lifecycle-event dialog.
\* The bot registers its handlers with a python-telegram-bot Application; an
\* update is given to the first handler of the group that accepts it, and the
\* ConversationHandler keeps one state per (chat, user) key.
EXTENDS Integers, Sequences, FiniteSets, TLC

VARIABLES
    conversations,  \* ConversationHandler's dict: (chat, user) key -> state; no key = Idle
    user_data,      \* context.user_data of every user: a dict of scratch entries
    hist,           \* per key: the updates of the dialog in progress, while it follows a script
    dsubs,          \* per key: send_to_api calls made during the dialog in progress
    turn            \* what the last processed update did (messages, calls, fault)
                    \* and met (the outcomes of fetch, exchange and first rendering)
VARIABLE
    clock           \* the clocks of the host, in milliseconds: wall (time.time(),
                    \* since the epoch) and loop (the event loop's monotonic clock)

vars == <<conversations, user_data, hist, dsubs, turn, clock>>

\* ---------------------------------------------------------------- bounds
MaxCalls == 2       \* send_to_api calls followed within one dialog
MaxTicks == 2       \* advances of the clocks followed in SpecClock

\* ------------------------------------------------------- program constants
WAITING_FOR_EVENT == 1
WAITING_FOR_IMAGE == 2
WAITING_FOR_DESCRIPTION == 3
END == -1           \* ConversationHandler.END

BOT_SECRET == "secret"

\* ---------------------------------------------------------------- inputs
\* The labels of the reply keyboards (written here without their emoji prefix).
QuickReplies ==
    {"Broken/Not Working", "Fixed/Repaired", "Just Bought", "Recycled/Disposed",
     "Sold/Gifted", "Upgraded/Modified", "Cleaned/Maintained", "Working Great"}
CustomDescription == "Custom Description"
SendPhoto == "I'll send a photo"
TextOnly == "Continue with text only"

FreeTexts == {"my kettle leaks", "sold the bike"}
GlobalCommands == {"start", "help", "link", "status", "products"}
CommandNames == GlobalCommands \cup {"cancel"}

\* A photo message carries its resolution variants, smallest first.
PhotoSizes ==
    {<<[file_id |-> "f1", file_size |-> 10]>>,
     <<[file_id |-> "f0", file_size |-> 5], [file_id |-> "f2", file_size |-> 20]>>}

UserIds == {42}

TextUpdate(u, t) ==
    [chat |-> u, user |-> u, kind |-> "text", text |-> t, command |-> "", photo |-> <<>>]
\* A command message: its text is the command, which a bot_command entity marks.
CommandText ==
    [start |-> "/start", help |-> "/help", link |-> "/link", status |-> "/status",
     products |-> "/products", cancel |-> "/cancel"]
CommandUpdate(u, c) ==
    [chat |-> u, user |-> u, kind |-> "text", text |-> CommandText[c], command |-> c,
     photo |-> <<>>]
PhotoUpdate(u, p) ==
    [chat |-> u, user |-> u, kind |-> "photo", text |-> "", command |-> "", photo |-> p]

\* The updates of the specification Spec: every kind of update, with two of the
\* quick replies; SpecReplies has the dialogs of photos and all the quick replies.
SomeReplies == {"Broken/Not Working", "Working Great"}
PlainTexts == SomeReplies \cup {CustomDescription, SendPhoto, TextOnly} \cup FreeTexts

Updates(u) ==
    {TextUpdate(u, t) : t \in PlainTexts}
        \cup {CommandUpdate(u, c) : c \in CommandNames}
        \cup {PhotoUpdate(u, p) : p \in PhotoSizes}
ReplyUpdates(u) ==
    {TextUpdate(u, t) : t \in QuickReplies} \cup {PhotoUpdate(u, p) : p \in PhotoSizes}

\* The updates of the specification SpecChats: one user who writes to the bot
\* in their private chat (its id is the user's) and in a group (a negative id).
ChatIds == {42, -1001}
InChat(upd, c) == [upd EXCEPT !.chat = c]
ChatsUpdates(u) ==
    {InChat(upd, c) :
        upd \in {PhotoUpdate(u, <<[file_id |-> "f1", file_size |-> 10]>>),
                 TextUpdate(u, "my kettle leaks")},
        c \in ChatIds}

\* The updates of the specification SpecClock: a photo and a text.
ClockUpdates(u) ==
    {PhotoUpdate(u, <<[file_id |-> "f1", file_size |-> 10]>>),
     TextUpdate(u, "Working Great")}

\* The updates of the specification SpecTexts: every label of the keyboards,
\* a text that is no label, and a command.
TextsUpdates(u) ==
    {TextUpdate(u, t) :
        t \in QuickReplies \cup {CustomDescription, SendPhoto, TextOnly, "sold the bike"}}
        \cup {CommandUpdate(u, "cancel")}

\* The updates of the specification SpecActors: two users in their private
\* chats, each with a text that the other never sends; the first has dialogs
\* of texts, the second of texts and of a photo.
ActorIds == {42, 7}
ActorText == [u \in ActorIds |-> IF u = 42 THEN "my kettle leaks" ELSE "sold the bike"]
ActorPhoto ==
    [u \in ActorIds |->
        IF u = 42 THEN <<[file_id |-> "f1", file_size |-> 10]>>
        ELSE <<[file_id |-> "f0", file_size |-> 5], [file_id |-> "f2", file_size |-> 20]>>]
ActorUpdates(u) ==
    IF u = 42 THEN {TextUpdate(u, t) : t \in {ActorText[u], TextOnly}}
    ELSE {TextUpdate(u, ActorText[u]), PhotoUpdate(u, ActorPhoto[u])}

\* ------------------------------------------------------------- dispatch
filters_PHOTO(upd) == upd.kind = "photo"
filters_TEXT(upd) == upd.kind = "text"
filters_COMMAND(upd) == upd.kind = "text" /\ upd.command # ""
CommandHandlerAccepts(name, upd) == upd.kind = "text" /\ upd.command = name

Key(upd) == <<upd.chat, upd.user>>
Idle(conv, key) == key \notin DOMAIN conv

\* ConversationHandler.check_update: entry points when the key has no state,
\* else the handlers of the state, and the fallbacks only when none accepts.
\* The handlers of the states without their filter: any message is accepted.
StateHandlerAccepts_any(state, upd) ==
    state \in {WAITING_FOR_EVENT, WAITING_FOR_DESCRIPTION}

StateHandlerAccepts(state, upd) ==
    state \in {WAITING_FOR_EVENT, WAITING_FOR_DESCRIPTION} /\ filters_TEXT(upd)

\* ConversationCheck as with allow_reentry=True: the entry point of photos is
\* tried first in every state.
ConversationCheck_reentry(conv, upd) ==
    IF filters_PHOTO(upd) THEN "handle_photo"
    ELSE IF Idle(conv, Key(upd))
    THEN IF filters_TEXT(upd) /\ ~filters_COMMAND(upd) THEN "handle_text_only"
         ELSE "none"
    ELSE IF StateHandlerAccepts(conv[Key(upd)], upd) THEN "process_lifecycle_event"
         ELSE IF CommandHandlerAccepts("cancel", upd) THEN "cancel_command"
         ELSE "none"

ConversationCheck(conv, upd) ==
    IF Idle(conv, Key(upd))
    THEN IF filters_PHOTO(upd) THEN "handle_photo"
         ELSE IF filters_TEXT(upd) /\ ~filters_COMMAND(upd) THEN "handle_text_only"
         ELSE "none"
    ELSE IF StateHandlerAccepts(conv[Key(upd)], upd) THEN "process_lifecycle_event"
         ELSE IF CommandHandlerAccepts("cancel", upd) THEN "cancel_command"
         ELSE "none"

\* Dispatch with the ConversationHandler registered before the commands.
Dispatch_conversation_first(conv, upd) ==
    IF ConversationCheck(conv, upd) # "none"
    THEN ConversationCheck(conv, upd)
    ELSE IF \E c \in GlobalCommands : CommandHandlerAccepts(c, upd)
    THEN "command"
    ELSE "none"

\* The handlers of group 0 in the order of their registration.
Dispatch(conv, upd) ==
    IF \E c \in GlobalCommands : CommandHandlerAccepts(c, upd)
    THEN "command"
    ELSE ConversationCheck(conv, upd)

\* ------------------------------------------------------------ dict helpers
EmptyDict == [k \in {} |-> ""]
Put(d, k, v) == [x \in DOMAIN d \cup {k} |-> IF x = k THEN v ELSE d[x]]
Drop(d, k) == [x \in DOMAIN d \ {k} |-> d[x]]

\* The ConversationHandler's update of its dict with the handler's return value.
UpdateState(conv, key, new_state) ==
    IF new_state = END THEN Drop(conv, key) ELSE Put(conv, key, new_state)

\* ------------------------------------------------------------ bookkeeping
NoTurn ==
    [update |-> TextUpdate(CHOOSE u \in UserIds : TRUE, ""), handler |-> "none",
     before |-> 0, sent |-> <<>>,
     calls |-> <<>>, raised |-> FALSE, fetch |-> "none", api |-> "none",
     outcome |-> "none", render |-> <<>>, at |-> [wall |-> 0, loop |-> 0]]

StateOf(conv, key) == IF Idle(conv, key) THEN 0 ELSE conv[key]

CanTurn(key) == Idle(conversations, key) \/ dsubs[key] < MaxCalls

\* The kind of an update, as the conversations of the specification name it.
Kind(upd) ==
    CASE upd.kind = "photo" -> "photo"
      [] upd.command # "" -> "command"
      [] upd.text \in QuickReplies -> "quick_reply"
      [] upd.text = CustomDescription -> "custom_description"
      [] upd.text = SendPhoto -> "send_photo"
      [] upd.text = TextOnly -> "text_only"
      [] OTHER -> "free_text"

\* The conversations whose outcome the specification states.
Scripts ==
    {<<"photo", "quick_reply">>,
     <<"free_text", "text_only">>,
     <<"free_text", "send_photo", "photo", "free_text">>}
OnScript(updates) ==
    \E script \in Scripts :
        /\ Len(updates) <= Len(script)
        /\ \A i \in 1..Len(updates) : Kind(updates[i]) = script[i]

\* Follows the dialog in progress: it starts in Idle, and is followed as long as
\* it is the beginning of a script and no handler raised before its work was done.
Log(upd, handler, sent, calls, raised, fetch, api, outcome, render) ==
    LET key == Key(upd)
        fresh == Idle(conversations, key)
        updates == IF fresh THEN <<upd>>
                   ELSE IF hist[key] = <<>> THEN <<>>
                   ELSE Append(hist[key], upd)
    IN  /\ hist' = [hist EXCEPT ![key] =
                        IF (~raised \/ calls # <<>>) /\ OnScript(updates)
                        THEN updates ELSE <<>>]
        /\ dsubs' = [dsubs EXCEPT ![key] = (IF fresh THEN 0 ELSE @) + Len(calls)]
        /\ turn' = [update |-> upd, handler |-> handler,
                    before |-> StateOf(conversations, key), sent |-> sent,
                    calls |-> calls, raised |-> raised, fetch |-> fetch, api |-> api,
                    outcome |-> outcome, render |-> render, at |-> clock]

\* error_handler: answers the update whose handler raised, if it can.
error_handler(apology) == IF apology THEN <<<<"reply", "apology">>>> ELSE <<>>

\* One reply_text and what follows it: the message, or the fault and its apology.
ReplyEnvs == {"sent", "failed", "failed_silent"}
Reply(msg, env) ==
    IF env = "sent" THEN <<<<"reply", msg>>>> ELSE error_handler(env = "failed")

\* ------------------------------------------------------------- handlers
\* The clocks when the bot starts: the loop's clock is time.monotonic(), which
\* counts from the start of the host, and the wall clock counts from the epoch
\* (here a host started one day after the epoch, three and a half seconds ago).
StartClock == [wall |-> 86403500, loop |-> 3500]

Init ==
    /\ conversations = [k \in {} |-> 0]
    /\ user_data = [u \in UserIds |-> EmptyDict]
    /\ hist = [k \in {<<u, u>> : u \in UserIds} |-> <<>>]
    /\ dsubs = [k \in {<<u, u>> : u \in UserIds} |-> 0]
    /\ turn = NoTurn
    /\ clock = StartClock

\* start_command .. products_command: a reply, and nothing of the dialog.
command(upd, env) ==
    /\ Dispatch(conversations, upd) = "command"
    /\ turn' = [update |-> upd, handler |-> upd.command,
                before |-> StateOf(conversations, Key(upd)),
                sent |-> Reply(upd.command, env), calls |-> <<>>,
                raised |-> env # "sent", fetch |-> "none", api |-> "none",
                outcome |-> "none", render |-> <<>>, at |-> clock]
    /\ UNCHANGED <<conversations, user_data, hist, dsubs, clock>>

handle_photo(upd, env) ==
    /\ Dispatch(conversations, upd) = "handle_photo"
    /\ CanTurn(Key(upd))
    /\ LET photo == upd.photo[Len(upd.photo)]
       IN  IF env = "sent"
           THEN /\ user_data' = [user_data EXCEPT ![upd.user] =
                        Put(Put(@, "photo_file_id", photo.file_id),
                            "photo_size", photo.file_size)]
                /\ conversations' =
                        UpdateState(conversations, Key(upd), WAITING_FOR_DESCRIPTION)
           ELSE UNCHANGED <<conversations, user_data>>
    /\ Log(upd, "handle_photo", Reply("photo_prompt", env), <<>>, env # "sent",
           "none", "none", "none", <<>>)
    /\ UNCHANGED clock

\* handle_text_only keeping the text in one dict for all users.
handle_text_only_shared(upd, env) ==
    /\ Dispatch(conversations, upd) = "handle_text_only"
    /\ CanTurn(Key(upd))
    /\ IF env = "sent"
       THEN /\ user_data' = [u \in DOMAIN user_data |->
                    Put(user_data[u], "text_description", upd.text)]
            /\ conversations' = UpdateState(conversations, Key(upd), WAITING_FOR_EVENT)
       ELSE UNCHANGED <<conversations, user_data>>
    /\ Log(upd, "handle_text_only", Reply("text_prompt", env), <<>>, env # "sent",
           "none", "none", "none", <<>>)
    /\ UNCHANGED clock

handle_text_only(upd, env) ==
    /\ Dispatch(conversations, upd) = "handle_text_only"
    /\ CanTurn(Key(upd))
    /\ IF env = "sent"
       THEN /\ user_data' = [user_data EXCEPT ![upd.user] =
                    Put(@, "text_description", upd.text)]
            /\ conversations' = UpdateState(conversations, Key(upd), WAITING_FOR_EVENT)
       ELSE UNCHANGED <<conversations, user_data>>
    /\ Log(upd, "handle_text_only", Reply("text_prompt", env), <<>>, env # "sent",
           "none", "none", "none", <<>>)
    /\ UNCHANGED clock

\* ---- process_lifecycle_event
\* description_mapping with the sentences of two buttons exchanged.
description_mapping_exchanged ==
    [t \in QuickReplies |->
        CASE t = "Broken/Not Working" -> "This product is broken and not working properly"
          [] t = "Fixed/Repaired" -> "I fixed and repaired this product, it's working now"
          [] t = "Just Bought" -> "I just purchased this product"
          [] t = "Recycled/Disposed" -> "I sold or gave away this product"
          [] t = "Sold/Gifted" -> "I recycled or disposed of this product"
          [] t = "Upgraded/Modified" -> "I upgraded or modified this product"
          [] t = "Cleaned/Maintained" -> "I cleaned and maintained this product"
          [] t = "Working Great" -> "This product is working great with no issues"]

\* The quick-reply buttons and their descriptive text.
description_mapping ==
    [t \in QuickReplies |->
        CASE t = "Broken/Not Working" -> "This product is broken and not working properly"
          [] t = "Fixed/Repaired" -> "I fixed and repaired this product, it's working now"
          [] t = "Just Bought" -> "I just purchased this product"
          [] t = "Recycled/Disposed" -> "I recycled or disposed of this product"
          [] t = "Sold/Gifted" -> "I sold or gave away this product"
          [] t = "Upgraded/Modified" -> "I upgraded or modified this product"
          [] t = "Cleaned/Maintained" -> "I cleaned and maintained this product"
          [] t = "Working Great" -> "This product is working great with no issues"]

\* StoredText without the look-up: the label itself stays the description.
StoredText_label(ud, description) == description

\* StoredText without the default of the look-up: nothing when nothing is stored.
StoredText_no_default(ud, description) ==
    IF "text_description" \in DOMAIN ud THEN ud["text_description"] ELSE ""

\* context.user_data.get('text_description', description)
StoredText(ud, description) ==
    IF "text_description" \in DOMAIN ud THEN ud["text_description"] ELSE description

\* Describe looking up the stored text for every text that is no label.
Describe_stored(text, ud) ==
    IF text \in QuickReplies
    THEN [submit |-> TRUE, description |-> description_mapping[text]]
    ELSE IF text = CustomDescription
    THEN [submit |-> FALSE, prompt |-> "custom_prompt", state |-> WAITING_FOR_DESCRIPTION]
    ELSE IF text = SendPhoto
    THEN [submit |-> FALSE, prompt |-> "send_photo_prompt", state |-> WAITING_FOR_IMAGE]
    ELSE [submit |-> TRUE, description |-> StoredText(ud, text)]

\* Describe with the returned states of the two prompts exchanged.
Describe_exchanged(text, ud) ==
    IF text \in QuickReplies
    THEN [submit |-> TRUE, description |-> description_mapping[text]]
    ELSE IF text = CustomDescription
    THEN [submit |-> FALSE, prompt |-> "custom_prompt", state |-> WAITING_FOR_IMAGE]
    ELSE IF text = SendPhoto
    THEN [submit |-> FALSE, prompt |-> "send_photo_prompt",
          state |-> WAITING_FOR_DESCRIPTION]
    ELSE IF text = TextOnly
    THEN [submit |-> TRUE, description |-> StoredText(ud, text)]
    ELSE [submit |-> TRUE, description |-> text]

\* The if-chain on the message text: a description to submit, or a prompt and
\* the state to wait in.
Describe(text, ud) ==
    IF text \in QuickReplies
    THEN [submit |-> TRUE, description |-> description_mapping[text]]
    ELSE IF text = CustomDescription
    THEN [submit |-> FALSE, prompt |-> "custom_prompt", state |-> WAITING_FOR_DESCRIPTION]
    ELSE IF text = SendPhoto
    THEN [submit |-> FALSE, prompt |-> "send_photo_prompt", state |-> WAITING_FOR_IMAGE]
    ELSE IF text = TextOnly
    THEN [submit |-> TRUE, description |-> StoredText(ud, text)]
    ELSE [submit |-> TRUE, description |-> text]

\* str(user.id)
Digits == <<"0", "1", "2", "3", "4", "5", "6", "7", "8", "9">>
RECURSIVE Str(_)
Str(n) == IF n < 10 THEN Digits[n + 1] ELSE Str(n \div 10) \o Digits[(n % 10) + 1]

\* get_photo_data: the data URL of the downloaded bytes, or None (here <<>>).
get_photo_data(file_id, downloaded) ==
    IF downloaded THEN <<"data:image/jpeg;base64,", file_id>> ELSE <<>>

\* send_to_api: builds the payload and makes the exchange, whose failure
\* (connection, timeout, a body that is no JSON) is raised to the caller.
\* The timestamp is int(asyncio.get_event_loop().time()): the whole seconds of
\* the loop's clock, read when the payload is built.
ApiOutcomes == {"success", "failure", "malformed", "raise"}
send_to_api(telegram_id, text, image_data, outcome) ==
    LET payload == [telegramId |-> telegram_id, text |-> text, botToken |-> BOT_SECRET,
                    timestamp |-> clock.loop \div 1000]
    IN  [payload |-> IF image_data # <<>>
                     THEN Put(payload, "imageBase64", image_data)
                     ELSE payload,
         raised |-> outcome = "raise",
         result |-> outcome]

\* processing_msg.edit_text, and update.message.reply_text if the edit raises.
RenderOutcomes == {"edit", "reply", "none"}
\* Render without the except clause: a refused edit leaves nothing sent.
Render_edit_only(msg, outcome) ==
    IF outcome = "edit" THEN <<<<outcome, msg>>>> ELSE <<>>

Render(msg, outcome) ==
    IF outcome = "none" THEN <<>> ELSE <<<<outcome, msg>>>>

\* The body of the try statement and its except clause.
Submit(ud, telegram_id, description, env) ==
    LET stored == "photo_file_id" \in DOMAIN ud
        image_data == IF stored
                      THEN get_photo_data(ud["photo_file_id"], env.fetch)
                      ELSE <<>>
        call == send_to_api(telegram_id, description, image_data, env.api)
        message == CASE call.raised -> "none"
                     [] call.result = "success" -> "success"
                     [] call.result = "failure" -> "error"
                     [] OTHER -> "none"
        rendered == message # "none" /\ env.result # "none"
    IN  [calls |-> <<call.payload>>,
         sent |-> IF rendered THEN Render(message, env.result)
                  ELSE Render("sorry", env.sorry),
         raised |-> ~rendered /\ env.sorry = "none",
         fetch |-> IF ~stored THEN "none" ELSE IF env.fetch THEN "ok" ELSE "fail",
         api |-> env.api,
         outcome |-> IF call.raised THEN "raised" ELSE call.result,
         render |-> IF message # "none" THEN <<"result", env.result>>
                    ELSE <<"sorry", env.sorry>>]

\* What the chat platform and the backend may do while the try statement runs:
\* only the outcomes the run reads are varied.
Envs ==
    {e \in [fetch : BOOLEAN, api : ApiOutcomes, result : RenderOutcomes,
            sorry : RenderOutcomes, apology : BOOLEAN] :
        LET told == e.api \in {"success", "failure"}
            sorry == ~told \/ e.result = "none"
        IN  /\ ~told => e.result = "edit"
            /\ ~sorry => e.sorry = "edit"
            /\ (~sorry \/ e.sorry # "none") => e.apology}
SubmitEnvs(stored) == {e \in Envs : stored \/ e.fetch}

process_lifecycle_event(upd, reply) ==
    /\ Dispatch(conversations, upd) = "process_lifecycle_event"
    /\ CanTurn(Key(upd))
    /\ LET ud == user_data[upd.user]
           telegram_id == Str(upd.user)
           d == Describe(upd.text, ud)
       IN  IF ~d.submit
           THEN /\ conversations' =
                     IF reply = "sent"
                     THEN UpdateState(conversations, Key(upd), d.state)
                     ELSE conversations
                /\ UNCHANGED user_data
                /\ Log(upd, "process_lifecycle_event", Reply(d.prompt, reply),
                       <<>>, reply # "sent", "none", "none", "none", <<>>)
           ELSE IF reply # "sent"
           THEN /\ UNCHANGED <<conversations, user_data>>
                /\ Log(upd, "process_lifecycle_event", Reply("processing", reply),
                       <<>>, TRUE, "none", "none", "none", <<>>)
           ELSE \E env \in SubmitEnvs("photo_file_id" \in DOMAIN ud) :
                LET s == Submit(ud, telegram_id, d.description, env)
                IN  /\ IF s.raised
                       THEN UNCHANGED <<conversations, user_data>>
                       ELSE /\ user_data' = [user_data EXCEPT ![upd.user] = EmptyDict]
                            /\ conversations' =
                                 UpdateState(conversations, Key(upd), END)
                    /\ Log(upd, "process_lifecycle_event",
                           <<<<"reply", "processing">>>> \o s.sent
                               \o (IF s.raised THEN error_handler(env.apology)
                                   ELSE <<>>),
                           s.calls, s.raised, s.fetch, s.api, s.outcome, s.render)
    /\ UNCHANGED clock

cancel_command(upd, env) ==
    /\ Dispatch(conversations, upd) = "cancel_command"
    /\ CanTurn(Key(upd))
    /\ user_data' = [user_data EXCEPT ![upd.user] = EmptyDict]
    /\ conversations' =
            IF env = "sent" THEN UpdateState(conversations, Key(upd), END)
            ELSE conversations
    /\ Log(upd, "cancel_command", Reply("cancelled", env), <<>>, env # "sent",
           "none", "none", "none", <<>>)
    /\ UNCHANGED clock

\* No handler accepts the update: nothing runs and nothing is answered.
unhandled(upd) ==
    /\ Dispatch(conversations, upd) = "none"
    /\ CanTurn(Key(upd))
    /\ UNCHANGED <<conversations, user_data>>
    /\ Log(upd, "none", <<>>, <<>>, FALSE, "none", "none", "none", <<>>)
    /\ UNCHANGED clock

AllUpdates == UNION {Updates(u) : u \in UserIds}

Next ==
    \E upd \in AllUpdates :
        \/ \E env \in ReplyEnvs : command(upd, env)
        \/ \E env \in ReplyEnvs : handle_photo(upd, env)
        \/ \E env \in ReplyEnvs : handle_text_only(upd, env)
        \/ \E env \in ReplyEnvs : process_lifecycle_event(upd, env)
        \/ \E env \in ReplyEnvs : cancel_command(upd, env)
        \/ unhandled(upd)

Spec == Init /\ [][Next]_vars

AllReplyUpdates == UNION {ReplyUpdates(u) : u \in UserIds}

NextReplies ==
    \E upd \in AllReplyUpdates :
        \/ \E env \in ReplyEnvs : handle_photo(upd, env)
        \/ \E env \in ReplyEnvs : handle_text_only(upd, env)
        \/ \E env \in ReplyEnvs : process_lifecycle_event(upd, env)
        \/ unhandled(upd)

SpecReplies == Init /\ [][NextReplies]_vars

\* Time passes between two updates: both clocks advance by the same amount.
Tick ==
    /\ clock.loop < StartClock.loop + MaxTicks * 700
    /\ clock' = [wall |-> clock.wall + 700, loop |-> clock.loop + 700]
    /\ UNCHANGED <<conversations, user_data, hist, dsubs, turn>>

AllClockUpdates == UNION {ClockUpdates(u) : u \in UserIds}

NextClock ==
    \/ Tick
    \/ \E upd \in AllClockUpdates :
          \/ \E env \in ReplyEnvs : handle_photo(upd, env)
          \/ \E env \in ReplyEnvs : handle_text_only(upd, env)
          \/ \E env \in ReplyEnvs : process_lifecycle_event(upd, env)
          \/ unhandled(upd)

SpecClock == Init /\ [][NextClock]_vars

\* The dialogs that wait for a text: after a photo (handle_photo), after a
\* text (handle_text_only), and after that text and "Custom Description".
StartedDialogs ==
    {[state |-> WAITING_FOR_DESCRIPTION,
      scratch |-> Put(Put(EmptyDict, "photo_file_id", "f1"), "photo_size", 10)],
     [state |-> WAITING_FOR_EVENT,
      scratch |-> Put(EmptyDict, "text_description", "my kettle leaks")],
     [state |-> WAITING_FOR_DESCRIPTION,
      scratch |-> Put(EmptyDict, "text_description", "my kettle leaks")]}

InitTexts ==
    /\ \E d \in StartedDialogs :
            /\ conversations = [k \in {<<u, u>> : u \in UserIds} |-> d.state]
            /\ user_data = [u \in UserIds |-> d.scratch]
    /\ hist = [k \in {<<u, u>> : u \in UserIds} |-> <<>>]
    /\ dsubs = [k \in {<<u, u>> : u \in UserIds} |-> 0]
    /\ turn = NoTurn
    /\ clock = StartClock

AllTextsUpdates == UNION {TextsUpdates(u) : u \in UserIds}

\* process_lifecycle_event applied to every text in the dialogs that wait for one.
NextTexts ==
    \E upd \in AllTextsUpdates :
        \/ \E env \in ReplyEnvs : process_lifecycle_event(upd, env)
        \/ \E env \in ReplyEnvs : cancel_command(upd, env)
        \/ unhandled(upd)

SpecTexts == InitTexts /\ [][NextTexts]_vars

\* One user in two chats: the ConversationHandler is built with its defaults
\* (per_chat and per_user), so it keeps a state for each (chat, user) key,
\* and context.user_data is the one dict of the user.
InitChats ==
    /\ conversations = [k \in {} |-> 0]
    /\ user_data = [u \in UserIds |-> EmptyDict]
    /\ hist = [k \in ChatIds \X UserIds |-> <<>>]
    /\ dsubs = [k \in ChatIds \X UserIds |-> 0]
    /\ turn = NoTurn
    /\ clock = StartClock

AllChatsUpdates == UNION {ChatsUpdates(u) : u \in UserIds}

NextChats ==
    \E upd \in AllChatsUpdates :
        \/ \E env \in ReplyEnvs : handle_photo(upd, env)
        \/ \E env \in ReplyEnvs : handle_text_only(upd, env)
        \/ \E env \in ReplyEnvs : process_lifecycle_event(upd, env)
        \/ unhandled(upd)

SpecChats == InitChats /\ [][NextChats]_vars

\* Two users, each in their private chat with the bot; the Application
\* processes their updates one at a time, in any order.
InitActors ==
    /\ conversations = [k \in {} |-> 0]
    /\ user_data = [u \in ActorIds |-> EmptyDict]
    /\ hist = [k \in {<<u, u>> : u \in ActorIds} |-> <<>>]
    /\ dsubs = [k \in {<<u, u>> : u \in ActorIds} |-> 0]
    /\ turn = NoTurn
    /\ clock = StartClock

AllActorUpdates == UNION {ActorUpdates(u) : u \in ActorIds}

NextActors ==
    \E upd \in AllActorUpdates :
        \/ \E env \in ReplyEnvs : handle_photo(upd, env)
        \/ \E env \in ReplyEnvs : handle_text_only(upd, env)
        \/ \E env \in ReplyEnvs : process_lifecycle_event(upd, env)
        \/ unhandled(upd)

SpecActors == InitActors /\ [][NextActors]_vars

\* ---------------------------------------------------------------- claims
Keys == DOMAIN hist
Messages == {turn.sent[i][2] : i \in 1..Len(turn.sent)}
FailureMessages == {i \in 1..Len(turn.sent) : turn.sent[i][2] \in {"error", "sorry"}}
TurnIdle == Idle(conversations, Key(turn.update))
TurnScratchEmpty == DOMAIN user_data[turn.update.user] = {}
HasImage(call) == "imageBase64" \in DOMAIN call

\* The table of canonical sentences of the specification.
CanonicalSentence ==
    [t \in QuickReplies |->
        CASE t = "Broken/Not Working" -> "This product is broken and not working properly"
          [] t = "Fixed/Repaired" -> "I fixed and repaired this product, it's working now"
          [] t = "Just Bought" -> "I just purchased this product"
          [] t = "Recycled/Disposed" -> "I recycled or disposed of this product"
          [] t = "Sold/Gifted" -> "I sold or gave away this product"
          [] t = "Upgraded/Modified" -> "I upgraded or modified this product"
          [] t = "Cleaned/Maintained" -> "I cleaned and maintained this product"
          [] t = "Working Great" -> "This product is working great with no issues"]

\* The encoded image the specification asks for: the highest resolution of the
\* photo, as a JPEG data URL.
HighestResolution(photo) ==
    CHOOSE i \in 1..Len(photo) : \A j \in 1..Len(photo) : photo[j].file_size <= photo[i].file_size
EncodedImage(upd) ==
    <<"data:image/jpeg;base64,", upd.photo[HighestResolution(upd.photo)].file_id>>

\* C1: /cancel, received in any dialog state, clears the scratch state, returns
\* the dialog to Idle, is acknowledged, and causes no submission call.
C1_CancelFromAnyState ==
    turn.update.command = "cancel" =>
        /\ TurnScratchEmpty
        /\ TurnIdle
        /\ "cancelled" \in Messages
        /\ turn.calls = <<>>

\* C2: free text, "I'll send a photo", a photo, a description, from Idle: exactly
\* one submission call, with the new photo and the new description.
C2_TextThenPhotoThenDescription ==
    \A k \in Keys :
        (Len(hist[k]) = 4 /\ turn.update = hist[k][4]) =>
            /\ dsubs[k] = 1
            /\ Len(turn.calls) = 1
            /\ turn.calls[1].text = hist[k][4].text
            /\ turn.fetch # "fail" =>
                    /\ HasImage(turn.calls[1])
                    /\ turn.calls[1].imageBase64 = EncodedImage(hist[k][3])

\* C3: after a turn that attempted a submission, and after a cancellation, the
\* scratch state is empty and the dialog is Idle (so the next photo starts afresh).
C3_ResetAfterSubmissionOrCancel ==
    (turn.calls # <<>> \/ turn.update.command = "cancel") =>
        TurnScratchEmpty /\ TurnIdle

\* C4: an uncaught error of a turn leaves the conversation in Idle with an empty
\* scratch state (and is answered with the apology when the platform takes it).
C4_UncaughtErrorResets ==
    turn.raised => TurnIdle /\ TurnScratchEmpty

\* C5: when the submission call raises, the turn renders exactly one failure
\* message, clears the scratch state and returns the dialog to Idle.
C5_TransportFailureRendered ==
    turn.outcome = "raised" =>
        /\ Cardinality(FailureMessages) = 1
        /\ TurnScratchEmpty
        /\ TurnIdle

\* C6: a photo and then a quick-reply label, from Idle: exactly one submission
\* call, with the canonical sentence of the label, and with the image when the
\* media fetch succeeds.
C6_PhotoThenQuickReply ==
    \A k \in Keys :
        (/\ Len(hist[k]) = 2
         /\ Kind(hist[k][1]) = "photo"
         /\ turn.update = hist[k][2]) =>
            /\ dsubs[k] = 1
            /\ Len(turn.calls) = 1
            /\ turn.calls[1].text = CanonicalSentence[hist[k][2].text]
            /\ turn.fetch = "ok" =>
                    /\ HasImage(turn.calls[1])
                    /\ turn.calls[1].imageBase64 = EncodedImage(hist[k][1])

C6_Witness ==
    \E k \in Keys :
        /\ Len(hist[k]) = 2
        /\ Kind(hist[k][1]) = "photo"
        /\ Len(hist[k][1].photo) = 2
        /\ turn.update = hist[k][2]
        /\ turn.update.text = "Sold/Gifted"
        /\ turn.fetch = "ok"
        /\ Len(turn.calls) = 1
        /\ HasImage(turn.calls[1])

\* C7: free text and then "continue with text only", from Idle: exactly one
\* submission call, with the free text of the first turn and no image.
C7_TextThenTextOnly ==
    \A k \in Keys :
        (/\ Len(hist[k]) = 2
         /\ Kind(hist[k][2]) = "text_only"
         /\ turn.update = hist[k][2]) =>
            /\ dsubs[k] = 1
            /\ Len(turn.calls) = 1
            /\ turn.calls[1].text = hist[k][1].text
            /\ ~HasImage(turn.calls[1])

C7_Witness ==
    \E k \in Keys :
        /\ Len(hist[k]) = 2
        /\ Kind(hist[k][2]) = "text_only"
        /\ turn.update = hist[k][2]
        /\ Len(turn.calls) = 1
        /\ turn.calls[1].text = "sold the bike"

\* C8: a turn on the submission path makes exactly one submission call, and a
\* dialog sees no second call: none follows a failed one before the next dialog.
C8_OneSubmissionPerDialog ==
    /\ "processing" \in Messages => Len(turn.calls) = 1
    /\ \A k \in Keys : dsubs[k] <= 1

\* C9: the submission client turns a transport failure of the exchange into a
\* failure outcome, which the orchestrator receives; it raises nothing.
C9_TransportFailureIsOutcome ==
    turn.api = "raise" => turn.outcome = "failure"

\* C10: when the fetch of the stored media fails, the turn still makes exactly
\* one submission call, without image, and then resets to Idle.
C10_MediaFailureStillSubmits ==
    turn.fetch = "fail" =>
        /\ Len(turn.calls) = 1
        /\ ~HasImage(turn.calls[1])
        /\ TurnScratchEmpty
        /\ TurnIdle

\* C11: when the edit of the placeholder is refused and a new message is taken,
\* the result is sent as a new message, once, the turn made its one submission
\* call, and it clears the scratch state and returns to Idle.
ResultMessage ==
    CASE turn.outcome = "success" -> "success"
      [] turn.outcome = "failure" -> "error"
      [] OTHER -> "sorry"
C11_FailedEditFallsBack ==
    (turn.render # <<>> /\ turn.render[2] = "reply") =>
        /\ turn.sent = <<<<"reply", "processing">>, <<"reply", ResultMessage>>>>
        /\ Len(turn.calls) = 1
        /\ ~turn.raised
        /\ TurnScratchEmpty
        /\ TurnIdle

C11_Witness ==
    /\ turn.render = <<"result", "reply">>
    /\ turn.outcome = "failure"
    /\ turn.before = WAITING_FOR_DESCRIPTION
    /\ <<"reply", "error">> \in {turn.sent[i] : i \in 1..Len(turn.sent)}

\* C12: a turn of one actor leaves the dialog state and the scratch state of
\* every other actor as they were, and every submission call of the turn names
\* the actor of the turn and carries a description and a media reference of
\* that actor, never of another.
OwnFiles(u) == {ActorPhoto[u][i].file_id : i \in 1..Len(ActorPhoto[u])}
OthersUntouched ==
    \A u \in ActorIds \ {turn'.update.user} :
        /\ user_data'[u] = user_data[u]
        /\ StateOf(conversations', <<u, u>>) = StateOf(conversations, <<u, u>>)
OwnSubmission ==
    \A i \in 1..Len(turn.calls) :
        LET call == turn.calls[i]
            u == turn.update.user
        IN  /\ call.telegramId = Str(u)
            /\ \A v \in ActorIds \ {u} :
                    /\ call.text # ActorText[v]
                    /\ HasImage(call) => call.imageBase64[2] \notin OwnFiles(v)
Answered == turn.sent # <<>> /\ turn.sent[1][2] # "apology"
Normalized(text) == IF text \in QuickReplies THEN CanonicalSentence[text] ELSE text
ControlLabels == {CustomDescription, SendPhoto, TextOnly}
C13_AnyOtherTextUnchanged ==
    (turn.handler = "process_lifecycle_event" /\ Answered) =>
        /\ Len(turn.calls) = 1
        /\ turn.calls[1].text = Normalized(turn.update.text)

\* C13 amended: the same for every text that is none of the three control
\* labels (custom description, send a photo, continue with text only).
C13_LabelsAndFreeText ==
    (/\ turn.handler = "process_lifecycle_event"
     /\ Answered
     /\ turn.update.text \notin ControlLabels) =>
        /\ Len(turn.calls) = 1
        /\ turn.calls[1].text = Normalized(turn.update.text)

C13_Witness ==
    /\ turn.handler = "process_lifecycle_event"
    /\ turn.update.text = "Recycled/Disposed"
    /\ turn.before = WAITING_FOR_EVENT
    /\ Len(turn.calls) = 1
    /\ turn.calls[1].text = "I recycled or disposed of this product"

\* C14: every submission call carries a description that is not empty (a
\* message without text, such as a photo, has the empty text here).
C14_DescriptionNotEmpty ==
    \A i \in 1..Len(turn.calls) : turn.calls[i].text # ""

\* The three sources: the text of the turn, a mapped sentence, the stored text.
C14_Witness ==
    /\ Len(turn.calls) = 1
    /\ turn.update.text = TextOnly
    /\ turn.calls[1].text = "sold the bike"

\* C15: the timestamp of every report is the wall-clock time of the moment of
\* the call, in whole seconds since the epoch.
C15_TimestampIsWallClock ==
    \A i \in 1..Len(turn.calls) :
        turn.calls[i].timestamp = turn.at.wall \div 1000

\* C16: a turn of process_lifecycle_event (in AwaitingDescription or
\* AwaitingClarification) on "Custom Description" or "I'll send a photo" makes
\* no submission call and leaves the scratch state as it was; once its prompt
\* is sent the dialog is in AwaitingDescription for the first label and in
\* AwaitingPhoto for the second.
ControlTurn ==
    /\ clock' = clock
    /\ turn'.handler = "process_lifecycle_event"
    /\ turn'.before \in {WAITING_FOR_EVENT, WAITING_FOR_DESCRIPTION}
    /\ turn'.update.text \in {CustomDescription, SendPhoto}
ControlEffect ==
    /\ turn'.calls = <<>>
    /\ user_data' = user_data
    /\ ~turn'.raised =>
            StateOf(conversations', Key(turn'.update)) =
                IF turn'.update.text = CustomDescription
                THEN WAITING_FOR_DESCRIPTION ELSE WAITING_FOR_IMAGE
C16_ControlLabels == [][ControlTurn => ControlEffect]_vars

C16_Witness ==
    /\ turn.handler = "process_lifecycle_event"
    /\ turn.update.text = SendPhoto
    /\ turn.before = WAITING_FOR_EVENT
    /\ ~turn.raised
    /\ StateOf(conversations, Key(turn.update)) = WAITING_FOR_IMAGE
    /\ "text_description" \in DOMAIN user_data[turn.update.user]

\* C17: a turn of process_lifecycle_event (in AwaitingDescription or
\* AwaitingClarification) on a text that is neither a quick-reply label nor a
\* control label submits that text as typed, never the free text stored by the
\* first turn, which is gone when the turn has reset the dialog.
FreeTextTurn ==
    /\ clock' = clock
    /\ turn'.handler = "process_lifecycle_event"
    /\ turn'.before \in {WAITING_FOR_EVENT, WAITING_FOR_DESCRIPTION}
    /\ turn'.update.text \notin QuickReplies \cup ControlLabels
    /\ <<"reply", "processing">> \in {turn'.sent[i] : i \in 1..Len(turn'.sent)}
FreeTextEffect ==
    LET u == turn'.update.user
        typed == turn'.update.text
    IN  /\ Len(turn'.calls) = 1
        /\ turn'.calls[1].text = typed
        /\ ("text_description" \in DOMAIN user_data[u]
                /\ user_data[u]["text_description"] # typed) =>
                    turn'.calls[1].text # user_data[u]["text_description"]
        /\ ~turn'.raised =>
                /\ user_data'[u] = EmptyDict
                /\ Idle(conversations', Key(turn'.update))
C17_FreeTextAsTyped == [][FreeTextTurn => FreeTextEffect]_vars

C17_Witness ==
    /\ turn.handler = "process_lifecycle_event"
    /\ turn.before = WAITING_FOR_EVENT
    /\ turn.update.text = "sold the bike"
    /\ Len(turn.calls) = 1
    /\ turn.calls[1].text = "sold the bike"
    /\ TurnScratchEmpty
    /\ TurnIdle

\* C18: a turn of process_lifecycle_event on "Continue with text only" when no
\* free text is stored makes its submission call with the label itself as the
\* description, and a stored media reference is still fetched and, when the
\* fetch succeeds, sent with it.
TextOnlyTurn ==
    /\ clock' = clock
    /\ turn'.handler = "process_lifecycle_event"
    /\ turn'.update.text = TextOnly
    /\ "text_description" \notin DOMAIN user_data[turn'.update.user]
    /\ <<"reply", "processing">> \in {turn'.sent[i] : i \in 1..Len(turn'.sent)}
TextOnlyEffect ==
    LET ud == user_data[turn'.update.user]
    IN  /\ Len(turn'.calls) = 1
        /\ turn'.calls[1].text = "Continue with text only"
        /\ "photo_file_id" \in DOMAIN ud =>
                /\ turn'.fetch \in {"ok", "fail"}
                /\ turn'.fetch = "ok" =>
                        /\ HasImage(turn'.calls[1])
                        /\ turn'.calls[1].imageBase64 =
                                <<"data:image/jpeg;base64,", ud["photo_file_id"]>>
C18_TextOnlyWithoutStoredText == [][TextOnlyTurn => TextOnlyEffect]_vars

C18_Witness ==
    /\ turn.handler = "process_lifecycle_event"
    /\ turn.before = WAITING_FOR_DESCRIPTION
    /\ turn.update.text = TextOnly
    /\ Len(turn.calls) = 1
    /\ turn.calls[1].text = TextOnly
    /\ HasImage(turn.calls[1])
    /\ turn.outcome = "success"

\* C19: in every reachable state the dialog of a user is Idle exactly when the
\* scratch state of that user is empty.
C19_IdleIffScratchEmpty ==
    \A u \in DOMAIN user_data :
        Idle(conversations, <<u, u>>) <=> DOMAIN user_data[u] = {}

\* What a step stores in the scratch state of a user.
Holds(ud, k) == k \in DOMAIN ud
Stored(u, k) ==
    /\ Holds(user_data'[u], k)
    /\ ~Holds(user_data[u], k) \/ user_data'[u][k] # user_data[u][k]

\* C20: the scratch state of a user never holds both a media reference and a
\* stored free text.
C20_NeverPhotoAndText ==
    \A u \in DOMAIN user_data :
        ~(Holds(user_data[u], "photo_file_id") /\ Holds(user_data[u], "text_description"))

\* The rest of C20, which holds in every specification of this module: a media
\* reference is stored only by handle_photo and a free text only by
\* handle_text_only, each on an update whose (chat, user) key has no state.
StoredOnlyInIdle ==
    \A u \in DOMAIN user_data :
        /\ Stored(u, "photo_file_id") =>
                /\ turn'.handler = "handle_photo"
                /\ turn'.update.user = u /\ turn'.before = 0
                /\ turn'.update.kind = "photo"
        /\ Stored(u, "text_description") =>
                /\ turn'.handler = "handle_text_only"
                /\ turn'.update.user = u /\ turn'.before = 0
                /\ turn'.update.kind = "text"
StoredOnlyByEntryPoints == [][StoredOnlyInIdle]_vars

\* A photo arrives for a key that waits for a text.
PhotoWhileWaiting ==
    /\ clock' = clock
    /\ turn'.update.kind = "photo"
    /\ turn'.before \in {WAITING_FOR_EVENT, WAITING_FOR_DESCRIPTION}
PhotoIgnored ==
    /\ conversations' = conversations
    /\ user_data' = user_data
    /\ turn'.calls = <<>>
    /\ turn'.sent = <<>>
    /\ turn'.handler = "none"

\* C21: a photo that arrives while the dialog is in AwaitingDescription or
\* AwaitingClarification is ignored: no handler runs, the dialog state and the
\* scratch state stay as they were (a stored media reference is not replaced),
\* and no submission call is made.
C21_PhotoWhileWaitingIgnored == [][PhotoWhileWaiting => PhotoIgnored]_vars

\* A second photo, with another file, arrives after the first was stored.
C21_Witness ==
    /\ turn.update.kind = "photo"
    /\ turn.before = WAITING_FOR_DESCRIPTION
    /\ turn.update.photo[Len(turn.update.photo)].file_id = "f2"
    /\ Holds(user_data[turn.update.user], "photo_file_id")
    /\ user_data[turn.update.user]["photo_file_id"] = "f1"
    /\ StateOf(conversations, Key(turn.update)) = WAITING_FOR_DESCRIPTION

\* One of the five commands arrives, in any state of its key.
CommandTurn ==
    /\ clock' = clock
    /\ turn'.update.command \in {"start", "help", "link", "status", "products"}
CommandEffect ==
    /\ conversations' = conversations
    /\ user_data' = user_data
    /\ turn'.calls = <<>>
    /\ turn'.handler = turn'.update.command

\* C22: /start, /help, /link, /status and /products, in any dialog state, are
\* answered by their own handlers: the dialog state and the scratch state stay
\* as they were and no submission call is made, so the command is never taken
\* as a description.
C22_CommandsLeaveDialog == [][CommandTurn => CommandEffect]_vars

\* /status arrives while the dialog waits for the choice after a text.
C22_Witness ==
    /\ turn.update.command = "status"
    /\ turn.handler = "status"
    /\ turn.before = WAITING_FOR_EVENT
    /\ StateOf(conversations, Key(turn.update)) = WAITING_FOR_EVENT
    /\ Holds(user_data[turn.update.user], "text_description")
====
